---- MODULE Spec2Model ----
(***************************************************************************)
(* Voice-chat coordination of Forum-X.                                     *)
(*                                                                         *)
(* The Mesh Session Manager is the class AudioService of                   *)
(* src/unnamed/part_000 (the client library the AudioChat view of          *)
(* src/src/components/post/PostCard.tsx drives).  One instance per client  *)
(* is modelled; every field of the class is a function over Clients.       *)
(* The Room Coordinator (the server side of the /audio namespace) is not   *)
(* among the sources and is modelled from the specification.               *)
(*                                                                         *)
(* JavaScript runs every handler to its next await without interruption,   *)
(* so one action is one such run: the synchronous part of a handler, or    *)
(* the continuation that follows the completion of an awaited operation.   *)
(***************************************************************************)
EXTENDS Integers, Sequences, FiniteSets, TLC

(* ------------------------------ bounds -------------------------------- *)
MaxPc      == 2   \* RTCPeerConnection objects alive in one manager
MaxTasks   == 1   \* handler continuations awaiting one connection's operations
MaxTimers  == 2   \* interval timers alive in one manager
MaxInbox   == 2   \* server-to-client messages in flight to one client
MaxOffers  == 2   \* offers to one identity that no answer has come back for

(* --------------------------- program constants ------------------------ *)
FftSize            == 512   \* audioAnalyser.fftSize
SpeakingThreshold  == -50   \* speakingThreshold, in dB
ByteMax            == 255   \* full scale of getByteFrequencyData

(* ------------------------------ universe ------------------------------ *)
Clients == {"a", "b"}
Rooms   == {"d1", "d2"}

\* socket.id of a client's connection (assigned by the transport at each
\* connect): the second client can get one below or above the first's
ConnIds(c) == IF c = "a" THEN {2} ELSE {1, 3}
\* the userId the view passes to initialize(): the account id user._id
UserId(c)  == IF c = "a" THEN 11 ELSE 12
\* identities of participants that are not modelled as clients
RemoteIds  == {1, 3}
AllIds     == {1, 2, 3, 11, 12}

TimerIds  == 1..MaxTimers

VARIABLES
  socket,        \* this.socket: "null" or "open" (an object exists)
  connected,     \* this.connected
  socketId,      \* this.socket.id: 0 while undefined
  discussionId,  \* this.discussionId: "null" or a room
  joinPending,   \* rooms of the joinDiscussion calls awaiting getUserMedia
  localStream,   \* this.localStream: "null", or a stream whose audio track has
                 \* enabled = true ("on") or false ("off")
  audioAnalyser, \* this.audioAnalyser (and audioContext) is set
  isMuted,       \* this.isMuted
  voiceActivityDetectionInterval, \* 0 (null) or the timer last started
  timers,        \* per timer: "free", or the lastSpeakingState of its closure "f"/"t"
  peerConnections, \* the RTCPeerConnection objects; key is the identity under
                 \* which this.peerConnections holds the object (0: not held)
  users,         \* this.users: identity -> "absent" / "silent" / "speaking"
  members,       \* Coordinator: room -> set of member identities
  inbox,         \* Coordinator -> client messages in flight (FIFO)
  served,        \* Coordinator: the connection has joined a room, so that
                 \* messages about other participants can be on their way to it
  out,           \* the message the last step emitted on the signaling channel
  cb,            \* the callback the last step delivered to the view
  last,          \* what the last step ran: a joinDiscussion call with what it
                 \* returned ("true", "false", "throw") and how the capture
                 \* ended, a leaveDiscussion call, a timer callback with the
                 \* energy at the analyser, or (where a specification records
                 \* it) the listener of a message with the identity it names
  joinedTo,      \* the room of the last joinDiscussion that returned true
                 \* since leaveDiscussion was last called: "null" when none
  joinFailed,    \* whether the joinDiscussion that ended last did not return true
  lastSpeaking,  \* isSpeaking of the last speaking message sent since the last
                 \* join-discussion: "none" / "yes" / "no"
  view,          \* the AudioChat component of each client: whether it is
                 \* mounted and its React state (used where a specification
                 \* has the component drive the manager)
  offered        \* per client and remote identity, the offers sent to it that
                 \* no answer has come back for, oldest first: "held" when the
                 \* link that sent the offer is still the one held, "old" when
                 \* it has been superseded (kept where a specification
                 \* follows the answers)

sessVars  == <<socket, connected, socketId, discussionId, joinPending>>
mediaVars == <<localStream, audioAnalyser, isMuted>>
vadVars   == <<voiceActivityDetectionInterval, timers>>
linkVars  == <<peerConnections>>
netVars   == <<members, inbox, served>>
obsVars   == <<out, cb, last, joinedTo, joinFailed, lastSpeaking>>
auxVars   == <<view, offered>>
vars == <<sessVars, mediaVars, vadVars, linkVars, users, netVars, obsVars, auxVars>>

(* ------------------------------ records ------------------------------- *)
Msg(t, i, r, f) == [type |-> t, id |-> i, room |-> r, flag |-> f]
NoMsg  == [c |-> "-", type |-> "none", id |-> 0, room |-> "null", flag |-> FALSE]
Sent(c, m) == [c |-> c, type |-> m.type, id |-> m.id, room |-> m.room, flag |-> m.flag]
NoCb   == [c |-> "-", name |-> "none", id |-> 0, flag |-> FALSE]
Cb(c, n, i, f) == [c |-> c, name |-> n, id |-> i, flag |-> f]
NoRet  == [c |-> "-", op |-> "none", val |-> "none", sum |-> 0, mic |-> "none",
           retry |-> FALSE, from |-> 0, busy |-> FALSE]
Ret(c, o, v) == [c |-> c, op |-> o, val |-> v, sum |-> 0, mic |-> "none",
                 retry |-> FALSE, from |-> 0, busy |-> FALSE]
Ticked(c, sum) == [c |-> c, op |-> "tick", val |-> "none", sum |-> sum,
                   mic |-> "none", retry |-> FALSE, from |-> 0, busy |-> FALSE]
\* the listener of message m ran, with the isSpeaking value m carried; busy
\* tells whether it found a connection for m.id with an operation awaited on it
Listened(c, m, busy) ==
  [c |-> c, op |-> m.type,
   val |-> IF m.type # "speaking" THEN "none" ELSE IF m.flag THEN "t" ELSE "f",
   sum |-> 0, mic |-> "none", retry |-> FALSE, from |-> m.id, busy |-> busy]
\* the kinds of message that carry the negotiation of a Peer Link
Signals == {"offer", "answer", "ice-candidate"}
\* joinDiscussion ended with v: before the capture ("none"), or after
\* getUserMedia had resolved ("granted") or rejected ("denied"); retry tells
\* whether the call came after one that had failed
Captured(c, v, mic, retry) ==
  [c |-> c, op |-> "joinDiscussion", val |-> v, sum |-> 0, mic |-> mic,
   retry |-> retry, from |-> 0, busy |-> FALSE]

\* An RTCPeerConnection is a record: key (above), remote (the identity it was
\* created for), closed (close() was called), sig (its negotiation state),
\* local (the type of its local description: "none", "offer" or "answer"),
\* track (the local audio track added to it) and tasks (the handler
\* continuations awaiting one of its operations).  track is "none", "cur" (the
\* track of this.localStream), the track of a stream the manager has replaced
\* ("old_on" / "old_off": its enabled flag, which nothing changes any more) or
\* "ended" (a track that was stopped).
TaskKinds == {"offer_j", "offer_o", "ro", "an", "sa"}

Min(S) == CHOOSE x \in S : \A y \in S : x <= y

(* ----------------------- voice activity detection --------------------- *)
BinCount == FftSize \div 2          \* audioAnalyser.frequencyBinCount

RECURSIVE Pow10(_)
Pow10(n) == IF n = 0 THEN 1 ELSE 10 * Pow10(n - 1)

\* sums of the frequency bins the analyser can deliver at a sample
Samples == {0, 206, 207}

\* isSpeaking of one sample whose bins add up to sum:
\*   average = sum / BinCount; dB = 20 * log10(average / 255); dB > threshold.
\* 20*log10(x) > -50  <=>  x^2 > 10^-5  <=>  sum^2 * 10^5 > (BinCount*255)^2;
\* both sides are divided by 100 to stay within TLC's 32-bit integers.
\* log10(0) is -Infinity, which is not above the threshold.
IsSpeakingSample(sum) ==
  /\ sum > 0
  /\ sum * sum * Pow10(((0 - SpeakingThreshold) \div 10) - 2)
       > ((BinCount * ByteMax) \div 10) * ((BinCount * ByteMax) \div 10)

Flag(b) == IF b THEN "t" ELSE "f"

(* --------------------------- Room Coordinator ------------------------- *)
\* a Coordinator that keeps the members who leave
CoordMembers_NoLeave(mem, s, m) ==
  IF m.type = "join-discussion" THEN [mem EXCEPT ![m.room] = @ \cup {s}]
  ELSE mem

\* membership after the Coordinator has handled message m of identity s
CoordMembers(mem, s, m) ==
  IF m.type = "join-discussion" THEN [mem EXCEPT ![m.room] = @ \cup {s}]
  ELSE IF m.type = "leave-discussion" THEN [mem EXCEPT ![m.room] = @ \ {s}]
  ELSE mem

\* membership after the connection of identity s is lost: an implicit leave
CoordDrop(mem, s) == [r \in Rooms |-> mem[r] \ {s}]

RECURSIVE JoinedNotices(_)
JoinedNotices(S) ==
  IF S = {} THEN <<>>
  ELSE <<Msg("user-joined", Min(S), "null", FALSE)>> \o JoinedNotices(S \ {Min(S)})

\* a Coordinator that relays a signaling message to the whole room
CoordOut_Broadcast(mem, s, m, t) ==
  IF m.type = "join-discussion" THEN
    IF s \in mem[m.room] THEN <<>>
    ELSE IF t = s THEN JoinedNotices(mem[m.room])
    ELSE IF t \in mem[m.room] THEN <<Msg("user-joined", s, "null", FALSE)>>
    ELSE <<>>
  ELSE IF m.type = "leave-discussion" THEN
    IF s \in mem[m.room] /\ t \in mem[m.room] \ {s}
    THEN <<Msg("user-left", s, "null", FALSE)>> ELSE <<>>
  ELSE IF m.type \in Signals THEN
    IF t # s /\ \E r \in Rooms : {s, t} \subseteq mem[r]
    THEN <<Msg(m.type, s, "null", FALSE)>> ELSE <<>>
  ELSE IF m.type = "speaking" THEN
    IF s \in mem[m.room] /\ t \in mem[m.room] \ {s}
    THEN <<Msg("speaking", s, "null", m.flag)>> ELSE <<>>
  ELSE <<>>

\* what the Coordinator sends to identity t on message m of identity s
CoordOut(mem, s, m, t) ==
  IF m.type = "join-discussion" THEN
    IF s \in mem[m.room] THEN <<>>                 \* already a member: no-op
    ELSE IF t = s THEN JoinedNotices(mem[m.room])  \* the converse notices
    ELSE IF t \in mem[m.room] THEN <<Msg("user-joined", s, "null", FALSE)>>
    ELSE <<>>
  ELSE IF m.type = "leave-discussion" THEN
    IF s \in mem[m.room] /\ t \in mem[m.room] \ {s}
    THEN <<Msg("user-left", s, "null", FALSE)>> ELSE <<>>
  ELSE IF m.type \in Signals THEN
    IF t = m.id /\ t # s /\ \E r \in Rooms : {s, t} \subseteq mem[r]
    THEN <<Msg(m.type, s, "null", FALSE)>> ELSE <<>>   \* else dropped
  ELSE IF m.type = "speaking" THEN
    IF s \in mem[m.room] /\ t \in mem[m.room] \ {s}
    THEN <<Msg("speaking", s, "null", m.flag)>> ELSE <<>>
  ELSE <<>>

\* what the Coordinator sends to identity t when the connection of s is lost
CoordDropOut(mem, s, t) ==
  LET rs == {r \in Rooms : s \in mem[r] /\ t \in mem[r] \ {s}}
  IN  [i \in 1..Cardinality(rs) |-> Msg("user-left", s, "null", FALSE)]

(* ------------------------- signaling channel -------------------------- *)
\* inboxes after the Coordinator has handled message m emitted by client c;
\* base is the inboxes before (with the message being handled already removed)
Relayed(c, m, mem, base) ==
  [t \in Clients |->
     IF connected[t] /\ t # c
     THEN base[t] \o CoordOut(mem, socketId[c], m, socketId[t])
     ELSE IF t = c THEN base[t] \o CoordOut(mem, socketId[c], m, socketId[c])
     ELSE base[t]]

InboxOk(box) == \A t \in Clients : Len(box[t]) <= MaxInbox

\* this.socket.emit(m) by client c.  A message emitted while the channel is
\* down is not delivered (the transport's send buffer is not modelled).
Emit(c, m, base) ==
  /\ out' = Sent(c, m)
  /\ lastSpeaking' =
       IF m.type = "speaking" THEN [lastSpeaking EXCEPT ![c] = IF m.flag THEN "yes" ELSE "no"]
       ELSE IF m.type = "join-discussion" THEN [lastSpeaking EXCEPT ![c] = "none"]
       ELSE lastSpeaking
  /\ IF connected[c]
     THEN /\ members' = CoordMembers(members, socketId[c], m)
          /\ inbox' = Relayed(c, m, members, base)
          /\ InboxOk(inbox')
          /\ served' = IF m.type = "join-discussion"
                       THEN [served EXCEPT ![c] = TRUE] ELSE served
     ELSE /\ members' = members
          /\ inbox' = base
          /\ served' = served

NoEmit(base) ==
  /\ out' = NoMsg
  /\ lastSpeaking' = lastSpeaking
  /\ members' = members
  /\ inbox' = base
  /\ served' = served

(* ------------------------------ peer links ---------------------------- *)
\* A manager's links are the set L of its RTCPeerConnection objects.  An
\* object that is closed and no longer in the table can do nothing more (an
\* operation pending on a closed connection never completes): it is forgotten.
Forget(L) == {p \in L : ~(p.closed /\ p.key = 0)}

\* this.peerConnections[userId], as a set: empty when the entry is absent
Held(L, userId) == {p \in L : p.key = userId}

Has(L, userId) == Held(L, userId) # {}

\* a cleanup that deletes the entry and does not close the connection
cleanupPeerConnection_NoClose(L, userId) ==
  {IF p.key = userId THEN [p EXCEPT !.key = 0] ELSE p : p \in L}

cleanupPeerConnection(L, userId) ==
  Forget({IF p.key = userId
          THEN [p EXCEPT !.closed = TRUE, !.key = 0, !.tasks = {}]
          ELSE p : p \in L})

\* cleanupPeerConnections(): cleanupPeerConnection for every key of the table
cleanupPeerConnections(L) ==
  Forget({IF p.key # 0
          THEN [p EXCEPT !.closed = TRUE, !.key = 0, !.tasks = {}]
          ELSE p : p \in L})

\* this.peerConnections[userId] = pc: the entry is overwritten
Store(L, userId, pc) ==
  {IF p.key = userId THEN [p EXCEPT !.key = 0] ELSE p : p \in L} \cup {pc}

\* the initiator test without the comparison of the two identities
IsInitiator_NoOrder(c, userId) == socketId[c] # 0

\* line 262: this.socket?.id && this.socket.id < userId
IsInitiator(c, userId) == socketId[c] # 0 /\ socketId[c] < userId

\* createPeerConnection without the cleanup of line 216: the entry is only
\* overwritten
createPeerConnection_NoCleanup(c, L, userId, after, first) ==
  Store(L, userId,
        [key    |-> userId,
         remote |-> userId,
         closed |-> FALSE,
         sig    |-> "new",
         local  |-> "none",
         ice    |-> FALSE,
         failed |-> FALSE,
         track  |-> IF localStream[c] # "null" /\ ~isMuted[c] THEN "cur" ELSE "none",
         tasks  |-> IF IsInitiator(c, userId) THEN {after} ELSE first])

\* createPeerConnection(userId) up to its first await; after names the
\* continuation of the calling handler ("offer_j": the user-joined handler,
\* "offer_o": the offer handler), first is the continuation of a caller that
\* goes on at once because createPeerConnection did not await.
createPeerConnection(c, L, userId, after, first) ==
  Store(cleanupPeerConnection(L, userId), userId,
        [key    |-> userId,
         remote |-> userId,
         closed |-> FALSE,
         sig    |-> "new",
         local  |-> "none",
         ice    |-> FALSE,
         failed |-> FALSE,
         track  |-> IF localStream[c] # "null" /\ ~isMuted[c] THEN "cur" ELSE "none",
         tasks  |-> IF IsInitiator(c, userId) THEN {after} ELSE first])

CanCreate(L, userId) == Cardinality(cleanupPeerConnection(L, userId)) < MaxPc

\* cleanupLocalStream(): the tracks of this.localStream are stopped
cleanupLocalStream(L) ==
  {IF p.track = "cur" THEN [p EXCEPT !.track = "ended"] ELSE p : p \in L}

\* this.localStream stops being the manager's stream: the connections that
\* carry its track keep it, as the track it then is
Retire(L, as) == {IF p.track = "cur" THEN [p EXCEPT !.track = as] ELSE p : p \in L}

\* the manager's links become L
Links(c, L) == peerConnections' = [peerConnections EXCEPT ![c] = L]

\* the Coordinator learns that the connection of client c is gone
Dropped(c, mem, base) ==
  /\ members' = CoordDrop(mem, socketId[c])
  /\ inbox' = [t \in Clients |->
                 IF t = c THEN <<>>
                 ELSE IF connected[t]
                 THEN base[t] \o CoordDropOut(mem, socketId[c], socketId[t])
                 ELSE base[t]]
  /\ InboxOk(inbox')
  /\ served' = [served EXCEPT ![c] = FALSE]

(* ----------------------------- initialize ----------------------------- *)
\* initialize(token, userId, username): an existing socket is disconnected
\* (its 'disconnect' listener runs when it was connected) and a new one opened
\* ret and failed are what the caller that goes on after it leaves in last
\* and joinFailed
initializeAs(c, ret, failed) ==
  LET L == IF connected[c] THEN cleanupPeerConnections(peerConnections[c])
           ELSE peerConnections[c] IN
  /\ socket' = [socket EXCEPT ![c] = "open"]
  /\ connected' = [connected EXCEPT ![c] = FALSE]
  /\ socketId' = [socketId EXCEPT ![c] = 0]
  /\ Links(c, L)
  /\ IF connected[c] THEN Dropped(c, members, inbox)
     ELSE members' = members /\ inbox' = [inbox EXCEPT ![c] = <<>>] /\ served' = served
  /\ out' = NoMsg /\ cb' = NoCb /\ last' = ret
  /\ joinFailed' = [joinFailed EXCEPT ![c] = failed]
  /\ UNCHANGED <<discussionId, joinPending, mediaVars, vadVars, users, lastSpeaking,
                 joinedTo>>

initialize(c) == initializeAs(c, NoRet, joinFailed[c])

\* a 'connect' listener that does not add the local participant
OnConnect_NoSelf(c) ==
  /\ socket[c] = "open" /\ ~connected[c]
  /\ \E sid \in ConnIds(c) : socketId' = [socketId EXCEPT ![c] = sid]
  /\ connected' = [connected EXCEPT ![c] = TRUE]
  /\ cb' = Cb(c, "connected", 0, FALSE)
  /\ out' = NoMsg /\ last' = NoRet
  /\ UNCHANGED <<socket, discussionId, joinPending, mediaVars, vadVars, linkVars,
                 users, netVars, lastSpeaking, joinedTo, joinFailed>>

\* the 'connect' listener (first connection or the transport's reconnection)
OnConnect(c) ==
  /\ socket[c] = "open" /\ ~connected[c]
  /\ \E sid \in ConnIds(c) : socketId' = [socketId EXCEPT ![c] = sid]
  /\ connected' = [connected EXCEPT ![c] = TRUE]
  /\ users' = [users EXCEPT ![c][UserId(c)] = "silent"]
  /\ cb' = Cb(c, "connected", 0, FALSE)
  /\ out' = NoMsg /\ last' = NoRet
  /\ UNCHANGED <<socket, discussionId, joinPending, mediaVars, vadVars, linkVars,
                 netVars, lastSpeaking, joinedTo, joinFailed>>

\* the 'disconnect' listener, on the loss of the connection
OnDisconnect(c) ==
  /\ connected[c]
  /\ connected' = [connected EXCEPT ![c] = FALSE]
  /\ socketId' = [socketId EXCEPT ![c] = 0]
  /\ Links(c, cleanupPeerConnections(peerConnections[c]))
  /\ Dropped(c, members, inbox)
  /\ out' = NoMsg /\ cb' = NoCb /\ last' = NoRet
  /\ UNCHANGED <<socket, discussionId, joinPending, mediaVars, vadVars, users,
                 lastSpeaking, joinedTo, joinFailed>>

(* --------------------------- joinDiscussion --------------------------- *)
\* the record of a joinDiscussion call that ends now
Ended(c, v, mic) == Captured(c, v, mic, joinFailed[c])

\* joinDiscussion(d) up to await getUserMedia
joinDiscussion(c, d) ==
  /\ d \notin joinPending[c]
  /\ IF socket[c] = "null" \/ ~connected[c]
     THEN /\ last' = Ended(c, "throw", "none")
          /\ joinFailed' = [joinFailed EXCEPT ![c] = TRUE]
          /\ UNCHANGED <<discussionId, joinPending>>
     ELSE /\ last' = NoRet
          /\ joinFailed' = joinFailed
          /\ discussionId' = [discussionId EXCEPT ![c] = d]
          /\ joinPending' = [joinPending EXCEPT ![c] = @ \cup {d}]
  /\ out' = NoMsg /\ cb' = NoCb
  /\ UNCHANGED <<socket, connected, socketId, mediaVars, vadVars, linkVars, users,
                 netVars, lastSpeaking, joinedTo>>

FreeTimers(c)  == {t \in TimerIds : timers[c][t] = "free"}

\* a start of the detection that schedules nothing
startVoiceActivityDetection_Idle(c, analyser) == UNCHANGED vadVars

\* startVoiceActivityDetection(): a new interval timer whose closure starts
\* with lastSpeakingState = false; the field is overwritten
startVoiceActivityDetection(c, analyser) ==
  IF analyser
  THEN /\ timers' = [timers EXCEPT ![c][Min(FreeTimers(c))] = "f"]
       /\ voiceActivityDetectionInterval' =
            [voiceActivityDetectionInterval EXCEPT ![c] = Min(FreeTimers(c))]
  ELSE UNCHANGED vadVars

\* a catch block that swallows the failure
Caught_Swallowed(c, mic) ==
  /\ cb' = NoCb
  /\ last' = Ended(c, "true", mic)
  /\ joinFailed' = [joinFailed EXCEPT ![c] = FALSE]
  /\ NoEmit(inbox)

\* the catch block of joinDiscussion (189-195)
Caught(c, mic) ==
  /\ cb' = Cb(c, "error", 0, FALSE)
  /\ last' = Ended(c, "false", mic)
  /\ joinFailed' = [joinFailed EXCEPT ![c] = TRUE]
  /\ NoEmit(inbox)

\* joinDiscussion(d) from the completion of getUserMedia on; analysed tells
\* whether setupAudioContext succeeds (its own catch keeps a failure inside)
joinCaptured(c, d, granted, analysed) ==
  /\ d \in joinPending[c]
  /\ joinPending' = [joinPending EXCEPT ![c] = @ \ {d}]
  /\ IF ~granted
     THEN /\ Caught(c, "denied")
          /\ UNCHANGED <<mediaVars, vadVars, linkVars, joinedTo>>
     ELSE \* this.localStream = stream: a new track is enabled; the stream
          \* held before is neither stopped nor taken off the connections
          /\ Links(c, Retire(peerConnections[c],
                              IF localStream[c] = "off" THEN "old_off" ELSE "old_on"))
          /\ localStream' = [localStream EXCEPT ![c] = "on"]
          /\ audioAnalyser' = [audioAnalyser EXCEPT ![c] = analysed \/ @]
          /\ isMuted' = isMuted
          /\ IF socket[c] = "null"
             THEN \* this.socket.emit throws
                  /\ Caught(c, "granted")
                  /\ UNCHANGED <<vadVars, joinedTo>>
             ELSE /\ FreeTimers(c) # {}
                  /\ Emit(c, Msg("join-discussion", 0, d, FALSE), inbox)
                  /\ startVoiceActivityDetection(c, audioAnalyser'[c])
                  /\ cb' = NoCb
                  /\ last' = Ended(c, "true", "granted")
                  /\ joinedTo' = [joinedTo EXCEPT ![c] = d]
                  /\ joinFailed' = [joinFailed EXCEPT ![c] = FALSE]
  /\ UNCHANGED <<socket, connected, socketId, discussionId, users>>

(* --------------------------- leaveDiscussion -------------------------- *)
stopVoiceActivityDetection(c) ==
  IF voiceActivityDetectionInterval[c] # 0
  THEN /\ timers' = [timers EXCEPT ![c][voiceActivityDetectionInterval[c]] = "free"]
       /\ voiceActivityDetectionInterval' = [voiceActivityDetectionInterval EXCEPT ![c] = 0]
  ELSE UNCHANGED vadVars

leaveDiscussion(c) ==
  /\ IF socket[c] = "null" \/ discussionId[c] = "null"
     THEN /\ NoEmit(inbox)
          /\ UNCHANGED <<discussionId, mediaVars, vadVars, linkVars>>
     ELSE /\ stopVoiceActivityDetection(c)
          /\ Emit(c, Msg("leave-discussion", 0, discussionId[c], FALSE), inbox)
          /\ Links(c, cleanupLocalStream(cleanupPeerConnections(peerConnections[c])))
          /\ localStream' = [localStream EXCEPT ![c] = "null"]
          /\ audioAnalyser' = [audioAnalyser EXCEPT ![c] = FALSE]
          /\ isMuted' = isMuted
          /\ discussionId' = [discussionId EXCEPT ![c] = "null"]
  /\ cb' = NoCb /\ last' = Ret(c, "leaveDiscussion", "void")
  /\ joinedTo' = [joinedTo EXCEPT ![c] = "null"] /\ joinFailed' = joinFailed
  /\ UNCHANGED <<socket, connected, socketId, joinPending, users>>

\* cleanup(): leaveDiscussion(), then the socket is disconnected and dropped
cleanup(c) ==
  LET leaves == socket[c] # "null" /\ discussionId[c] # "null"
      m      == Msg("leave-discussion", 0, discussionId[c], FALSE)
      mem1   == IF leaves /\ connected[c] THEN CoordMembers(members, socketId[c], m)
                ELSE members
      box1   == IF leaves /\ connected[c] THEN Relayed(c, m, members, inbox) ELSE inbox
  IN
  /\ IF leaves
     THEN /\ stopVoiceActivityDetection(c)
          /\ out' = Sent(c, m)
          /\ audioAnalyser' = [audioAnalyser EXCEPT ![c] = FALSE]
          /\ discussionId' = [discussionId EXCEPT ![c] = "null"]
     ELSE /\ out' = NoMsg
          /\ UNCHANGED <<vadVars, audioAnalyser, discussionId>>
  /\ Links(c, IF leaves THEN cleanupLocalStream(cleanupPeerConnections(peerConnections[c]))
              ELSE IF connected[c] THEN cleanupPeerConnections(peerConnections[c])
              ELSE peerConnections[c])
  /\ localStream' = [localStream EXCEPT ![c] = IF leaves THEN "null" ELSE @]
  /\ IF connected[c] THEN Dropped(c, mem1, box1)
     ELSE members' = mem1 /\ inbox' = [box1 EXCEPT ![c] = <<>>] /\ served' = served
  /\ socket' = [socket EXCEPT ![c] = "null"]
  /\ connected' = [connected EXCEPT ![c] = FALSE]
  /\ socketId' = [socketId EXCEPT ![c] = 0]
  /\ cb' = NoCb /\ last' = NoRet
  /\ joinedTo' = [joinedTo EXCEPT ![c] = "null"] /\ joinFailed' = joinFailed
  /\ UNCHANGED <<joinPending, isMuted, users, lastSpeaking>>

(* -------------------------------- mute -------------------------------- *)
\* a toggleMute that replaces the connections instead of flipping the flag
toggleMute_Renegotiate(c) ==
  /\ isMuted' = [isMuted EXCEPT ![c] = ~isMuted[c]]
  /\ localStream' = IF localStream[c] # "null"
                    THEN [localStream EXCEPT ![c] = IF ~isMuted[c] THEN "off" ELSE "on"]
                    ELSE localStream
  /\ Links(c, cleanupPeerConnections(peerConnections[c]))
  /\ out' = NoMsg /\ cb' = NoCb /\ last' = NoRet
  /\ UNCHANGED <<sessVars, audioAnalyser, vadVars, users, netVars, lastSpeaking,
                 joinedTo, joinFailed>>

toggleMute(c) ==
  /\ isMuted' = [isMuted EXCEPT ![c] = ~isMuted[c]]
  /\ localStream' = IF localStream[c] # "null"
                    THEN [localStream EXCEPT ![c] = IF ~isMuted[c] THEN "off" ELSE "on"]
                    ELSE localStream
  /\ out' = NoMsg /\ cb' = NoCb /\ last' = NoRet   \* it returns this.isMuted
  /\ UNCHANGED <<sessVars, audioAnalyser, vadVars, linkVars, users,
                 netVars, lastSpeaking, joinedTo, joinFailed>>

setMute(c, muted) ==
  IF isMuted[c] # muted
  THEN /\ toggleMute(c)
  ELSE /\ out' = NoMsg /\ cb' = NoCb /\ last' = NoRet  \* it returns this.isMuted
       /\ UNCHANGED <<sessVars, mediaVars, vadVars, linkVars, users, netVars,
                      lastSpeaking, joinedTo, joinFailed>>

(* ------------------------ voice activity timer ------------------------ *)
\* the callback's early return without the test of this.isMuted
TickSkips_NoMute(c) == ~audioAnalyser[c] \/ socket[c] = "null"

\* line 323: the callback returns at once
TickSkips(c) == ~audioAnalyser[c] \/ socket[c] = "null" \/ isMuted[c]

\* one run of the callback of interval timer t; sum is the energy at the analyser
Tick(c, t, sum) ==
  /\ timers[c][t] # "free"
  /\ last' = Ticked(c, sum)
  /\ UNCHANGED <<sessVars, mediaVars, voiceActivityDetectionInterval, linkVars,
                 joinedTo, joinFailed>>
  /\ IF TickSkips(c)
     THEN NoEmit(inbox) /\ cb' = NoCb /\ UNCHANGED <<timers, users>>
     ELSE LET isSpeaking == IsSpeakingSample(sum)
              userId     == socketId[c]
              known      == userId \in AllIds /\ users[c][userId] # "absent"
          IN
          IF Flag(isSpeaking) = timers[c][t]
          THEN NoEmit(inbox) /\ cb' = NoCb /\ UNCHANGED <<timers, users>>
          ELSE /\ timers' = [timers EXCEPT ![c][t] = Flag(isSpeaking)]
               /\ IF discussionId[c] # "null"
                  THEN Emit(c, Msg("speaking", 0, discussionId[c], isSpeaking), inbox)
                  ELSE NoEmit(inbox)
               /\ users' = IF known
                           THEN [users EXCEPT ![c][userId] =
                                   IF isSpeaking THEN "speaking" ELSE "silent"]
                           ELSE users
               /\ cb' = IF known THEN Cb(c, "speaking", userId, isSpeaking) ELSE NoCb

(* --------------------------- socket listeners ------------------------- *)
\* 'user-joined'
OnUserJoined(c, id, base) ==
  /\ CanCreate(peerConnections[c], id)
  /\ users' = [users EXCEPT ![c][id] = "silent"]
  /\ Links(c, createPeerConnection(c, peerConnections[c], id, "offer_j", {}))
  /\ cb' = IF IsInitiator(c, id) THEN NoCb ELSE Cb(c, "user-joined", id, FALSE)
  /\ NoEmit(base)

\* a 'user-left' listener that drops the participant and keeps its connection
OnUserLeft_KeepsLink(c, id, base) ==
  /\ UNCHANGED linkVars
  /\ users' = [users EXCEPT ![c][id] = "absent"]
  /\ cb' = IF users[c][id] # "absent" THEN Cb(c, "user-left", id, FALSE) ELSE NoCb
  /\ NoEmit(base)

\* 'user-left'
OnUserLeft(c, id, base) ==
  /\ Links(c, cleanupPeerConnection(peerConnections[c], id))
  /\ users' = [users EXCEPT ![c][id] = "absent"]
  /\ cb' = IF users[c][id] # "absent" THEN Cb(c, "user-left", id, FALSE) ELSE NoCb
  /\ NoEmit(base)

\* a continuation k starts to await an operation of the connection held for id
AddTask(L, id, k) ==
  {IF p.key = id THEN [p EXCEPT !.tasks = @ \cup {k}] ELSE p : p \in L}

\* the connection held for id can take one more pending continuation
CanAwait(L, id) == \A p \in Held(L, id) : Cardinality(p.tasks) < MaxTasks

\* 'offer', up to its first await
OnOffer(c, id, base) ==
  /\ IF ~Has(peerConnections[c], id)
     THEN /\ CanCreate(peerConnections[c], id)
          /\ Links(c, createPeerConnection(c, peerConnections[c], id, "offer_o", {"ro"}))
     ELSE /\ CanAwait(peerConnections[c], id)
          /\ Links(c, AddTask(peerConnections[c], id, "ro"))
  /\ users' = users /\ cb' = NoCb
  /\ NoEmit(base)

\* an 'answer' listener that does not apply the answer
OnAnswer_Ignored(c, id, base) ==
  /\ UNCHANGED linkVars
  /\ users' = users /\ cb' = NoCb
  /\ NoEmit(base)

\* 'answer', up to its await
OnAnswer(c, id, base) ==
  /\ IF Has(peerConnections[c], id)
     THEN /\ CanAwait(peerConnections[c], id)
          /\ Links(c, AddTask(peerConnections[c], id, "sa"))
     ELSE UNCHANGED linkVars
  /\ users' = users /\ cb' = NoCb
  /\ NoEmit(base)

\* whether a connection has a remote description
HasRemote(p) == p.sig \in {"have-remote-offer", "connected"}

\* 'ice-candidate': addIceCandidate on the connection held for the sender,
\* which rejects while the connection has no remote description; nothing
\* follows the await
OnIceCandidate(c, id, base) ==
  /\ Links(c, {IF p.key = id /\ HasRemote(p) THEN [p EXCEPT !.ice = TRUE] ELSE p :
                 p \in peerConnections[c]})
  /\ users' = users /\ cb' = NoCb
  /\ NoEmit(base)

\* a 'speaking' listener that lists a participant it does not know
OnSpeaking_Unknown(c, id, flag, base) ==
  /\ users' = [users EXCEPT ![c][id] = IF flag THEN "speaking" ELSE "silent"]
  /\ cb' = Cb(c, "speaking", id, flag)
  /\ UNCHANGED linkVars
  /\ NoEmit(base)

\* 'speaking'
OnSpeaking(c, id, flag, base) ==
  /\ IF users[c][id] # "absent"
     THEN /\ users' = [users EXCEPT ![c][id] = IF flag THEN "speaking" ELSE "silent"]
          /\ cb' = Cb(c, "speaking", id, flag)
     ELSE users' = users /\ cb' = NoCb
  /\ UNCHANGED linkVars
  /\ NoEmit(base)

\* the listener of message m runs; base is the inboxes once m is taken and
\* ret is what the step records of it
HandleAs(c, m, base, ret) ==
  /\ connected[c]
  /\ last' = ret
  /\ UNCHANGED <<sessVars, mediaVars, vadVars, joinedTo, joinFailed>>
  /\ CASE m.type = "user-joined"   -> OnUserJoined(c, m.id, base)
       [] m.type = "user-left"     -> OnUserLeft(c, m.id, base)
       [] m.type = "offer"         -> OnOffer(c, m.id, base)
       [] m.type = "answer"        -> OnAnswer(c, m.id, base)
       [] m.type = "ice-candidate" -> OnIceCandidate(c, m.id, base)
       [] m.type = "speaking"      -> OnSpeaking(c, m.id, m.flag, base)

Handle(c, m, base) == HandleAs(c, m, base, NoRet)

\* a message of the Coordinator arrives
Deliver(c) ==
  /\ inbox[c] # <<>>
  /\ Handle(c, Head(inbox[c]), [inbox EXCEPT ![c] = Tail(@)])

\* messages about participants that are not modelled as clients
EnvMsgs ==
  {Msg(t, i, "null", FALSE) : t \in {"user-joined", "user-left"} \cup Signals,
                               i \in RemoteIds}
  \cup {Msg("speaking", i, "null", f) : i \in RemoteIds, f \in BOOLEAN}

\* such a message arrives: the Coordinator sends them to a connection that
\* has joined a room, and those under way still arrive after it has left
EnvDeliver(c, m) == served[c] /\ Handle(c, m, inbox)

\* the same arrival, recorded with the kind and the identity of the message
EnvListen(c, m) ==
  served[c] /\ HandleAs(c, m, inbox,
                        Listened(c, m,
                                 \E p \in Held(peerConnections[c], m.id) : p.tasks # {}))

(* ---------------- completion of an awaited pc operation --------------- *)
\* the continuation k of a handler resumes on connection pc of client c
PcStep(c, pc, k) ==
  LET id == pc.remote
      rest == pc.tasks \ {k}
      With(sig, local, tasks) ==
        (peerConnections[c] \ {pc})
          \cup {[pc EXCEPT !.sig = sig, !.local = local, !.tasks = tasks]}
      Rejected == /\ Links(c, With(pc.sig, pc.local, rest))
                  /\ cb' = NoCb /\ NoEmit(inbox)
  IN
  /\ pc \in peerConnections[c] /\ ~pc.closed /\ k \in pc.tasks
  /\ last' = NoRet
  /\ UNCHANGED <<sessVars, mediaVars, vadVars, users, joinedTo, joinFailed>>
  /\ CASE k \in {"offer_j", "offer_o"} ->
            \* createOffer, setLocalDescription(offer), emit 'offer' (263-269);
            \* then the caller goes on: the callback (88-90) or line 117
            IF pc.sig \in {"new", "connected", "have-local-offer"} /\ socket[c] # "null"
            THEN /\ Links(c, With("have-local-offer", "offer", IF k = "offer_o" THEN rest \cup {"ro"} ELSE rest))
                 /\ Emit(c, Msg("offer", id, "null", FALSE), inbox)
                 /\ cb' = IF k = "offer_j" THEN Cb(c, "user-joined", id, FALSE) ELSE NoCb
            ELSE Rejected
       [] k = "ro" ->
            \* setRemoteDescription(offer) (118)
            IF pc.sig \in {"new", "connected", "have-remote-offer"}
            THEN /\ Links(c, With("have-remote-offer", pc.local, rest \cup {"an"}))
                 /\ cb' = NoCb /\ NoEmit(inbox)
            ELSE Rejected
       [] k = "an" ->
            \* createAnswer, setLocalDescription(answer), emit 'answer' (121-127)
            IF pc.sig = "have-remote-offer"
            THEN /\ Links(c, With("connected", "answer", rest))
                 /\ cb' = NoCb
                 /\ IF socket[c] # "null"
                    THEN Emit(c, Msg("answer", id, "null", FALSE), inbox)
                    ELSE NoEmit(inbox)
            ELSE Rejected
       [] k = "sa" ->
            \* setRemoteDescription(answer) (135)
            IF pc.sig = "have-local-offer"
            THEN /\ Links(c, With("connected", pc.local, rest))
                 /\ cb' = NoCb /\ NoEmit(inbox)
            ELSE Rejected

\* pc.onconnectionstatechange (253-256) when the transport of a negotiated
\* connection fails: the listener logs the state
OnConnectionStateChange(c, pc) ==
  /\ pc \in peerConnections[c] /\ ~pc.closed /\ pc.sig = "connected" /\ ~pc.failed
  /\ Links(c, (peerConnections[c] \ {pc}) \cup {[pc EXCEPT !.failed = TRUE]})
  /\ cb' = NoCb /\ last' = NoRet
  /\ NoEmit(inbox)
  /\ UNCHANGED <<sessVars, mediaVars, vadVars, users, joinedTo, joinFailed>>

\* pc.onicecandidate (243-251): a connection that has a local description
\* gathers a candidate, which is sent to the remote identity
OnIceCandidateEvent(c, pc) ==
  /\ pc \in peerConnections[c] /\ ~pc.closed /\ pc.local # "none"
  /\ IF socket[c] # "null"
     THEN Emit(c, Msg("ice-candidate", pc.remote, "null", FALSE), inbox)
     ELSE NoEmit(inbox)
  /\ cb' = NoCb /\ last' = NoRet
  /\ UNCHANGED <<sessVars, mediaVars, vadVars, linkVars, users, joinedTo, joinFailed>>

(* ------------------------------- system ------------------------------- *)
\* the React state of an AudioChat that is not mounted, which is also the
\* state a mount starts from (PostCard.tsx:225-229) but for isConnecting
NoView == [mounted |-> FALSE, isMuted |-> FALSE, isConnecting |-> FALSE,
           isConnected |-> FALSE, error |-> <<>>, awaiting |-> FALSE,
           auto |-> FALSE]

Init ==
  /\ socket = [c \in Clients |-> "null"]
  /\ connected = [c \in Clients |-> FALSE]
  /\ socketId = [c \in Clients |-> 0]
  /\ discussionId = [c \in Clients |-> "null"]
  /\ joinPending = [c \in Clients |-> {}]
  /\ localStream = [c \in Clients |-> "null"]
  /\ audioAnalyser = [c \in Clients |-> FALSE]
  /\ isMuted = [c \in Clients |-> FALSE]
  /\ voiceActivityDetectionInterval = [c \in Clients |-> 0]
  /\ timers = [c \in Clients |-> [t \in TimerIds |-> "free"]]
  /\ peerConnections = [c \in Clients |-> {}]
  /\ users = [c \in Clients |-> [i \in AllIds |-> "absent"]]
  /\ members = [r \in Rooms |-> {}]
  /\ inbox = [c \in Clients |-> <<>>]
  /\ served = [c \in Clients |-> FALSE]
  /\ out = NoMsg
  /\ cb = NoCb
  /\ last = NoRet
  /\ joinedTo = [c \in Clients |-> "null"]
  /\ joinFailed = [c \in Clients |-> FALSE]
  /\ lastSpeaking = [c \in Clients |-> "none"]
  /\ view = [c \in Clients |-> NoView]
  /\ offered = [c \in Clients |-> [i \in RemoteIds |-> <<>>]]

\* the client whose manager the single-manager specifications exercise
Local == "a"

\* The session of one manager: the view's calls, the transport's events and
\* the voice-activity timers.  No message about a remote participant arrives,
\* so the manager holds no Peer Link.
Next ==
  \/ initialize(Local) /\ UNCHANGED auxVars
  \/ OnConnect(Local) /\ UNCHANGED auxVars
  \/ OnDisconnect(Local) /\ UNCHANGED auxVars
  \/ \E d \in Rooms : joinDiscussion(Local, d) /\ UNCHANGED auxVars
  \/ \E d \in Rooms, g, ok \in BOOLEAN : joinCaptured(Local, d, g, ok) /\ UNCHANGED auxVars
  \/ leaveDiscussion(Local) /\ UNCHANGED auxVars
  \/ cleanup(Local) /\ UNCHANGED auxVars
  \/ toggleMute(Local) /\ UNCHANGED auxVars
  \/ \E m \in BOOLEAN : setMute(Local, m) /\ UNCHANGED auxVars
  \/ \E t \in TimerIds, sum \in Samples : Tick(Local, t, sum) /\ UNCHANGED auxVars

Spec == Init /\ [][Next]_vars

\* messages that concern a Peer Link and that participants running this
\* manager cause: the notices of a join and a leave, the offer of a participant
\* whose identifier is below the local one and the answer of one above it
LinkMsgs ==
  {m \in EnvMsgs :
     \/ m.type \in {"user-joined", "user-left"}
     \/ m.type = "offer" /\ \E sid \in ConnIds(Local) : m.id < sid
     \/ m.type = "answer" /\ \E sid \in ConnIds(Local) : sid < m.id}

\* the room the link specifications join
LinkRoom == "d1"

\* The links of one manager: the view's calls, the transport's events, the
\* messages about the remote participants' links, and the completion of the
\* operations the handlers await.  The timers are started and stopped, but
\* their callbacks, which touch no link, are left out, and so are the
\* speaking messages; one room is joined and the analyser is always set up.
NextLinks ==
  \/ initialize(Local) /\ UNCHANGED auxVars
  \/ OnConnect(Local) /\ UNCHANGED auxVars
  \/ OnDisconnect(Local) /\ UNCHANGED auxVars
  \/ joinDiscussion(Local, LinkRoom) /\ UNCHANGED auxVars
  \/ \E g \in BOOLEAN : joinCaptured(Local, LinkRoom, g, TRUE) /\ UNCHANGED auxVars
  \/ leaveDiscussion(Local) /\ UNCHANGED auxVars
  \/ toggleMute(Local) /\ UNCHANGED auxVars
  \/ \E m \in BOOLEAN : setMute(Local, m) /\ UNCHANGED auxVars
  \/ \E m \in LinkMsgs : EnvDeliver(Local, m) /\ UNCHANGED auxVars
  \/ \E pc \in peerConnections[Local], k \in TaskKinds : PcStep(Local, pc, k) /\ UNCHANGED auxVars

SpecLinks == Init /\ [][NextLinks]_vars

\* the same messages and the candidates of either participant
SignalMsgs == LinkMsgs \cup {m \in EnvMsgs : m.type = "ice-candidate"}

\* The negotiation of one manager's links, message by message: the session
\* is set up and torn down as above with the microphone granted and never
\* muted, the candidates arrive too, every arrival is recorded, and the
\* transport of a link can fail.
NextSignals ==
  \/ initialize(Local) /\ UNCHANGED auxVars
  \/ OnConnect(Local) /\ UNCHANGED auxVars
  \/ OnDisconnect(Local) /\ UNCHANGED auxVars
  \/ joinDiscussion(Local, LinkRoom) /\ UNCHANGED auxVars
  \/ joinCaptured(Local, LinkRoom, TRUE, TRUE) /\ UNCHANGED auxVars
  \/ leaveDiscussion(Local) /\ UNCHANGED auxVars
  \/ \E m \in SignalMsgs : EnvListen(Local, m) /\ UNCHANGED auxVars
  \/ \E pc \in peerConnections[Local] : OnConnectionStateChange(Local, pc) /\ UNCHANGED auxVars
  \/ \E pc \in peerConnections[Local], k \in TaskKinds : PcStep(Local, pc, k) /\ UNCHANGED auxVars

SpecSignals == Init /\ [][NextSignals]_vars

\* The teardown of one manager's links: the session and the link messages of
\* NextLinks with the microphone granted and never muted, every arrival
\* recorded.
NextTeardown ==
  \/ initialize(Local) /\ UNCHANGED auxVars
  \/ OnConnect(Local) /\ UNCHANGED auxVars
  \/ OnDisconnect(Local) /\ UNCHANGED auxVars
  \/ joinDiscussion(Local, LinkRoom) /\ UNCHANGED auxVars
  \/ joinCaptured(Local, LinkRoom, TRUE, TRUE) /\ UNCHANGED auxVars
  \/ leaveDiscussion(Local) /\ UNCHANGED auxVars
  \/ \E m \in LinkMsgs : EnvListen(Local, m) /\ UNCHANGED auxVars
  \/ \E pc \in peerConnections[Local], k \in TaskKinds : PcStep(Local, pc, k) /\ UNCHANGED auxVars

SpecTeardown == Init /\ [][NextTeardown]_vars

\* messages about who is in the room and who speaks
RosterMsgs == {m \in EnvMsgs : m.type \in {"user-joined", "user-left", "speaking"}}

\* The participant list of one manager: the session with the microphone
\* granted, the mute toggle, the notices and the speaking messages of the
\* remote participants, every arrival recorded, and the completion of the
\* operations the user-joined handler awaits.
NextRoster ==
  \/ initialize(Local) /\ UNCHANGED auxVars
  \/ OnConnect(Local) /\ UNCHANGED auxVars
  \/ OnDisconnect(Local) /\ UNCHANGED auxVars
  \/ joinDiscussion(Local, LinkRoom) /\ UNCHANGED auxVars
  \/ joinCaptured(Local, LinkRoom, TRUE, TRUE) /\ UNCHANGED auxVars
  \/ leaveDiscussion(Local) /\ UNCHANGED auxVars
  \/ toggleMute(Local) /\ UNCHANGED auxVars
  \/ \E m \in RosterMsgs : EnvListen(Local, m) /\ UNCHANGED auxVars
  \/ \E pc \in peerConnections[Local], k \in TaskKinds : PcStep(Local, pc, k) /\ UNCHANGED auxVars

SpecRoster == Init /\ [][NextRoster]_vars

\* The mesh of two managers and the Coordinator between them: every message
\* a manager receives is one the Coordinator sent on a message of the other.
\* Each view initializes its manager once and joins when it has not joined;
\* one of the two participants also leaves, loses its connection and comes
\* back, with either connection identifier, and its microphone is always
\* granted; the capture of the other can be denied.
Roamer == "b"

NextMesh ==
  \/ \E c \in Clients :
       \/ socket[c] = "null" /\ initialize(c) /\ UNCHANGED auxVars
       \/ OnConnect(c) /\ UNCHANGED auxVars
       \/ discussionId[c] = "null" /\ joinDiscussion(c, LinkRoom) /\ UNCHANGED auxVars
       \/ \E g \in BOOLEAN : (g \/ c # Roamer) /\ joinCaptured(c, LinkRoom, g, TRUE) /\ UNCHANGED auxVars
       \/ Deliver(c) /\ UNCHANGED auxVars
       \/ \E pc \in peerConnections[c], k \in TaskKinds : PcStep(c, pc, k) /\ UNCHANGED auxVars
  \/ OnDisconnect(Roamer) /\ UNCHANGED auxVars
  \/ leaveDiscussion(Roamer) /\ UNCHANGED auxVars

SpecMesh == Init /\ [][NextMesh]_vars

\* The mesh with the candidates the connections of the participant that
\* stays gather, which the Coordinator relays like the offers and the answers.
NextRelay ==
  \/ NextMesh
  \/ \E pc \in peerConnections[Local] : OnIceCandidateEvent(Local, pc) /\ UNCHANGED auxVars

SpecRelay == Init /\ [][NextRelay]_vars

\* The mesh when the signaling messages are delivered and the awaited
\* operations complete: the delivery to each manager and the continuations
\* on its connections are weakly fair.  What the views and the transport do
\* (join, leave, loss of the connection) is not.
SpecMeshLive ==
  /\ Init /\ [][NextMesh]_vars
  /\ \A c \in Clients :
       /\ WF_vars(Deliver(c) /\ UNCHANGED auxVars)
       /\ WF_vars(\E pc \in peerConnections[c], k \in TaskKinds :
                     PcStep(c, pc, k) /\ UNCHANGED auxVars)

(* ========================= voice activity claims ====================== *)
\* the manager has joined a discussion and the Coordinator has it as a member
Joined(c) ==
  /\ discussionId[c] # "null"
  /\ socketId[c] # 0
  /\ socketId[c] \in members[discussionId[c]]

\* the manager's current timer would report a loud sample as a transition
Listening(c) ==
  /\ audioAnalyser[c]
  /\ voiceActivityDetectionInterval[c] # 0
  /\ timers[c][voiceActivityDetectionInterval[c]] = "f"

\* C6: a muted participant is never reported as speaking: whenever the local
\* participant is muted and joined, the last speaking message it sent (what
\* the Coordinator and the other members hold for it) does not say true.
C6_MutedNotReportedSpeaking ==
  \A c \in Clients : (isMuted[c] /\ Joined(c)) => lastSpeaking[c] # "yes"

\* C7: while the local participant is muted, no speaking message with
\* isSpeaking = true is sent, whatever the sampled energy is.
C7_NoSpeakingTrueWhileMuted ==
  \A c \in Clients :
    (out.type = "speaking" /\ out.c = c /\ out.flag) => ~isMuted[c]

\* C7, its case: a timer callback has just run on a joined, muted manager
\* with energy above the threshold that would have been a transition, and
\* sent nothing.
C7_Witness ==
  /\ last = Ticked(Local, 207)
  /\ IsSpeakingSample(last.sum)
  /\ isMuted[Local] /\ Joined(Local) /\ Listening(Local)
  /\ out = NoMsg

\* C8: speaking messages follow actual transitions: no speaking message
\* repeats the isSpeaking value of the speaking message sent before it for
\* the same joined discussion.
C8_NoRepeatedSpeaking ==
  [][\A c \in Clients :
       (out'.type = "speaking" /\ out'.c = c)
         => lastSpeaking[c] # (IF out'.flag THEN "yes" ELSE "no")]_vars

\* C9: when a transition of the sampled state is sent as a speaking message,
\* the local participant's entry of getUsers() holds the new state and the
\* speaking-changed callback has fired for the local identity with it.
C9_LocalSpeakingFollows ==
  \A c \in Clients :
    (out.type = "speaking" /\ out.c = c) =>
       /\ users[c][UserId(c)] = (IF out.flag THEN "speaking" ELSE "silent")
       /\ cb = Cb(c, "speaking", UserId(c), out.flag)

\* what a leave releases is still held: the Coordinator's membership, the
\* microphone capture, a voice-activity timer or a Peer Link
StillJoined(c) ==
  \/ \E r \in Rooms : socketId[c] # 0 /\ socketId[c] \in members[r]
  \/ localStream[c] # "null"
  \/ \E t \in TimerIds : timers[c][t] # "free"
  \/ peerConnections[c] # {}

\* C10: at most one discussion is joined at a time: when join-discussion is
\* sent, a discussion joined before has been left (leave-discussion sent,
\* links closed, capture released, timer cancelled).
C10_LeaveBeforeJoin ==
  [][\A c \in Clients :
       (out'.type = "join-discussion" /\ out'.c = c) => ~StillJoined(c)]_vars

(* ============================= leave claims =========================== *)
\* the last step was a call of leaveDiscussion by c
Left(c) == last = Ret(c, "leaveDiscussion", "void")

\* C11: after leaveDiscussion has returned, no voice-activity timer of the
\* manager remains scheduled.
C11_NoTimerAfterLeave ==
  \A c \in Clients : Left(c) => \A t \in TimerIds : timers[c][t] = "free"

\* C12: leaveDiscussion called while joined to d (and no other join under
\* way) sends leave-discussion{d}, once, and on return the manager holds no
\* Peer Link, no microphone stream and no discussion identifier.
C12_LeaveReleases ==
  [][\A c \in Clients :
       (Left(c)' /\ joinedTo[c] # "null" /\ joinPending[c] = {}) =>
          /\ out' = Sent(c, Msg("leave-discussion", 0, joinedTo[c], FALSE))
          /\ peerConnections'[c] = {}
          /\ localStream'[c] = "null"
          /\ discussionId'[c] = "null"]_vars

\* C13: leaveDiscussion called when no joinDiscussion has succeeded since the
\* last leave, and none is under way, sends nothing and changes no state.
C13_LeaveNoOp ==
  [][\A c \in Clients :
       (Left(c)' /\ joinedTo[c] = "null" /\ joinPending[c] = {}) =>
          /\ out' = NoMsg
          /\ UNCHANGED <<sessVars, mediaVars, vadVars, linkVars, users, netVars>>]_vars

\* C23: cleanup() leaves what leaveDiscussion() leaves, with the channel
\* closed: once it has run on a manager on which no join is under way, the
\* manager holds no Peer Link, no microphone capture, no timer and no
\* discussion identifier.
C23_CleanupReleases ==
  [][\A c \in Clients :
       (socket[c] # "null" /\ socket'[c] = "null" /\ joinPending[c] = {}) =>
          /\ peerConnections'[c] = {}
          /\ localStream'[c] = "null"
          /\ \A t \in TimerIds : timers'[c][t] = "free"
          /\ discussionId'[c] = "null"]_vars

(* ============================ join failures =========================== *)
\* a joinDiscussion call of c ended in this step after a capture that ended mic
JoinEnded(c, mic) ==
  last'.c = c /\ last'.op = "joinDiscussion" /\ last'.mic = mic

\* C14: when the microphone capture is denied or fails, joinDiscussion returns
\* false and raises one error event instead of throwing; it sends no
\* join-discussion message, stores no local track and starts no
\* voice-activity timer.
C14_DeniedCapture ==
  [][\A c \in Clients :
       JoinEnded(c, "denied") =>
          /\ last'.val = "false"
          /\ cb' = Cb(c, "error", 0, FALSE)
          /\ out' = NoMsg
          /\ localStream'[c] = localStream[c]
          /\ UNCHANGED vadVars]_vars

\* a join has just failed on a denied capture: no track, no timer
C14_Witness ==
  \E c \in Clients :
    /\ last.c = c /\ last.op = "joinDiscussion"
    /\ last.val = "false" /\ last.mic = "denied"
    /\ cb = Cb(c, "error", 0, FALSE)
    /\ localStream[c] = "null"
    /\ \A t \in TimerIds : timers[c][t] = "free"

\* C15: a join that fails because the signaling channel is not connected
\* (no capture is attempted) returns false and raises the error event; it does
\* not throw to the caller.
C15_NotConnectedReported ==
  [][\A c \in Clients :
       JoinEnded(c, "none") =>
          /\ last'.val = "false"
          /\ cb' = Cb(c, "error", 0, FALSE)]_vars

\* the timers of c that are scheduled
Running(c) == {t \in TimerIds : timers[c][t] # "free"}

\* the manager of c is out of every discussion: no join is in effect or under
\* way and no timer is left from an earlier one
Idle(c) == joinedTo[c] = "null" /\ joinPending[c] = {} /\ Running(c) = {}

OpenFor(c, id) == {p \in peerConnections[c] : p.remote = id /\ ~p.closed}

\* C2: there is at most one open Peer Link per remote identity, and it is the
\* one the table holds for that identity: a link created for an identity
\* closes and removes the one that existed.
C2_OneLinkPerIdentity ==
  \A c \in Clients : \A id \in AllIds :
    /\ Cardinality(OpenFor(c, id)) <= 1
    /\ \A p \in OpenFor(c, id) : p.key = id

\* C2, its case: the manager holds a link for each of two remote identities,
\* one still fresh from its creation and one whose negotiation has completed.
C2_Witness ==
  /\ \E p \in OpenFor(Local, 1) : p.sig = "new"
  /\ \E p \in OpenFor(Local, 3) : p.sig = "connected"

\* C4: a step that changes the mute flag closes, removes and creates no Peer
\* Link, leaves every link's negotiation state as it is and sends no
\* message: only the flag and the enabled flag of the local track change.
C4_MuteFrame ==
  [][\A c \in Clients :
       (isMuted'[c] # isMuted[c]) =>
          /\ peerConnections' = peerConnections
          /\ out' = NoMsg
          /\ UNCHANGED <<sessVars, audioAnalyser, vadVars, users, netVars>>
          /\ (localStream[c] = "null") = (localStream'[c] = "null")]_vars

\* C4, its case: the manager has been muted while it held two links, one of
\* them connected, that carry the local track.
C4_Witness ==
  /\ isMuted[Local] /\ localStream[Local] = "off"
  /\ \E p \in OpenFor(Local, 1) : p.track = "cur" /\ p.sig = "connected"
  /\ \E p \in OpenFor(Local, 3) : p.track = "cur"

\* connection p of manager c sends the local audio with its track enabled
SendsEnabled(c, p) ==
  \/ p.track = "cur" /\ localStream[c] = "on"
  \/ p.track = "old_on"

\* connection p of manager c carries the track of the manager's capture
CarriesLocal(c, p) == p.track = "cur"

\* C5: once a mute call has made the mute state m, every Peer Link the manager
\* holds carries the track of its capture, enabled exactly when m is false.
C5_MuteReachesEveryLink ==
  [][\A c \in Clients :
       (isMuted'[c] # isMuted[c] /\ localStream'[c] # "null") =>
          \A p \in peerConnections'[c] :
             (p.key # 0) => /\ CarriesLocal(c, p)
                            /\ SendsEnabled(c, p)' = ~isMuted'[c]]_vars

\* the keys of getUsers()
Present(U) == {i \in AllIds : U[i] # "absent"}

\* the connections of a table that are not for identity id
Others(L, id) == {p \in L : p.remote # id}

\* C17: on a user-left notification for remote identity B the Peer Link to B
\* is closed and removed and B's Participant entry is dropped; every other
\* Peer Link and Participant entry, the local one included, is unchanged, and
\* when B was the only remote member getUsers() is exactly the local
\* participant.
C17_UserLeftFrame ==
  [][\A c \in Clients : \A B \in RemoteIds :
       cb' = Cb(c, "user-left", B, FALSE) =>
          /\ ~Has(peerConnections'[c], B)
          /\ OpenFor(c, B)' = {}
          /\ users'[c][B] = "absent"
          /\ \A i \in AllIds \ {B} : users'[c][i] = users[c][i]
          /\ Others(peerConnections'[c], B) = Others(peerConnections[c], B)
          /\ (Present(users[c]) = {UserId(c), B} =>
                Present(users'[c]) = {UserId(c)})]_vars

\* a participant has just left: nothing is held for it, while the link and
\* the entry of another participant are still there
C17_Witness ==
  \E B \in RemoteIds :
    /\ cb = Cb(Local, "user-left", B, FALSE)
    /\ \A p \in peerConnections[Local] : p.remote # B
    /\ \E p \in peerConnections[Local] : p.key # 0 /\ ~p.closed
    /\ Present(users[Local]) = (RemoteIds \ {B}) \cup {UserId(Local)}

\* the open links held for identity id that were created on an offer of id
\* received before any user-joined notification for id, that have applied the
\* offer and have answered it
Answered(c, id) ==
  {p \in Held(peerConnections[c], id) :
     ~p.closed /\ p.sig = "connected" /\ p.local = "answer" /\ users[c][id] = "absent"}

\* C18: a Peer Link created for remote identity C on an offer that arrived
\* before any user-joined notification for C, which has applied the offer and
\* sent the answer, stays the link for C when the user-joined notification
\* for C arrives afterwards.
C18_OfferedLinkSurvivesJoin ==
  [][\A c \in Clients : \A C \in RemoteIds :
       (users[c][C] = "absent" /\ users'[c][C] # "absent") =>
          \A p \in Answered(c, C) :
             \E q \in Held(peerConnections'[c], C) :
                ~q.closed /\ q.sig = "connected" /\ q.local = "answer"]_vars

\* C19: every inbound offer, answer or ice-candidate from identity X is
\* applied to the Peer Link for X, which is created first when none exists:
\* once the listener of any of the three kinds has run, a link for X is held.
C19_RoutedOrCreated ==
  [][\A c \in Clients : \A X \in RemoteIds :
       (last'.c = c /\ last'.op \in Signals /\ last'.from = X) =>
          Has(peerConnections'[c], X)]_vars

\* C20: a Peer Link whose transport has failed is closed and removed, so
\* that the next user-joined or offer event for its identity leaves a fresh
\* link in the table and not the failed one.
C20_FailedLinkNotReused ==
  [][\A c \in Clients : \A X \in RemoteIds :
       (last'.c = c /\ last'.op \in {"user-joined", "offer"} /\ last'.from = X) =>
          \A p \in Held(peerConnections'[c], X) : ~p.failed]_vars

(* =========================== teardown claims ========================== *)
\* C21: Closed is terminal and a closed Peer Link is never reused. The link
\* table never holds a closed link and nothing is pending on a closed one;
\* every offer or answer a handler sends comes from the open link the table
\* holds for the addressee, before and after the step, whatever user-left,
\* leaveDiscussion or disconnect came between the handler's awaits.
C21_ClosedIsTerminal ==
  [][\A c \in Clients :
       /\ \A p \in peerConnections'[c] : ~p.closed /\ (p.tasks # {} => p.key # 0)
       /\ (out'.c = c /\ out'.type \in {"offer", "answer"}) =>
             /\ \E p \in Held(peerConnections[c], out'.id) : ~p.closed /\ p.tasks # {}
             /\ \E p \in Held(peerConnections'[c], out'.id) : ~p.closed]_vars

\* a participant has just left while an operation was awaited on its link:
\* the link is gone and so is what was pending on it
C21_Witness ==
  \E B \in RemoteIds :
    /\ last.c = Local /\ last.op = "user-left" /\ last.from = B /\ last.busy
    /\ ~Has(peerConnections[Local], B)
    /\ \A p \in peerConnections[Local] : ~p.closed /\ p.remote # B

\* C22: while the manager is not joined to a discussion it holds no Peer
\* Link: leaveDiscussion and a disconnect close every link, and a notification
\* or an offer that arrives after the leave leaves no link behind.
C22_NoLinkOutsideDiscussion ==
  \A c \in Clients :
    (discussionId[c] = "null" /\ joinPending[c] = {}) => peerConnections[c] = {}

(* ============================ roster claims =========================== *)
\* C24: from the connected event onward getUsers() contains the local
\* participant, under its own key and no other: the entry is there whenever
\* the channel is connected and once there it stays, through join and leave
\* notices, speaking messages, mute toggles and joinDiscussion and
\* leaveDiscussion calls; the other keys are remote identities, each with one
\* entry.
C24_LocalListedOnce ==
  [][\A c \in Clients :
       /\ (connected'[c] \/ users[c][UserId(c)] # "absent") =>
             users'[c][UserId(c)] # "absent"
       /\ Present(users'[c]) \subseteq RemoteIds \cup {UserId(c)}]_vars

\* the local participant is listed beside a remote one after another remote
\* participant has left
C24_Witness ==
  \E B \in RemoteIds :
    /\ cb = Cb(Local, "user-left", B, FALSE)
    /\ UserId(Local) \in Present(users[Local])
    /\ Present(users[Local]) \cap RemoteIds = RemoteIds \ {B}
    /\ \E i \in RemoteIds : users[Local][i] = "speaking"

\* C27: remote speaking state is purely relayed. A speaking message for a
\* known remote participant sets its isSpeaking to the value of the message
\* and fires the speaking-changed callback with it; one for an unknown
\* identity changes nothing and fires nothing; a user-joined notification
\* lists the participant as not speaking; and nothing else changes the
\* isSpeaking of a listed remote participant.
C27_SpeakingRelayed ==
  [][\A c \in Clients : \A X \in RemoteIds :
       LET heard(t) == last'.c = c /\ last'.op = t /\ last'.from = X
       IN  /\ (heard("speaking") /\ users[c][X] # "absent") =>
                /\ users'[c][X] = (IF last'.val = "t" THEN "speaking" ELSE "silent")
                /\ cb' = Cb(c, "speaking", X, last'.val = "t")
           /\ (heard("speaking") /\ users[c][X] = "absent") =>
                /\ users' = users /\ cb' = NoCb
           /\ heard("user-joined") => users'[c][X] = "silent"
           /\ (users'[c][X] # users[c][X] /\ users'[c][X] # "absent") =>
                (heard("speaking") \/ heard("user-joined"))]_vars

\* a listed participant has just been reported speaking
C27_Witness ==
  \E X \in RemoteIds :
    /\ last.c = Local /\ last.op = "speaking" /\ last.from = X /\ last.val = "t"
    /\ users[Local][X] = "speaking"
    /\ cb = Cb(Local, "speaking", X, TRUE)

(* ============================= mesh claims ============================ *)
\* connection p has sent an offer or is about to: its local description is
\* an offer, or createPeerConnection is on its way to createOffer
Offerer(p) == p.local = "offer" \/ p.tasks \cap {"offer_j", "offer_o"} # {}

\* C1: of two participants that hold a Peer Link for each other, exactly one
\* is the one that offers, never both and never neither, in whatever order
\* they joined and their notifications and offers arrived.
C1_ExactlyOneOffers ==
  \A c \in Clients : \A d \in Clients \ {c} :
    \A p \in OpenFor(c, socketId[d]) : \A q \in OpenFor(d, socketId[c]) :
      Offerer(p) # Offerer(q)

\* C1, its case: the two managers hold a link for each other, the one with
\* the smaller connection identifier has offered and the other has answered.
C1_Witness ==
  /\ socketId["b"] = 1
  /\ \E p \in OpenFor("b", socketId["a"]) : p.local = "offer" /\ p.sig = "connected"
  /\ \E q \in OpenFor("a", socketId["b"]) : q.local = "answer" /\ q.sig = "connected"

\* both participants are joined to one room
BothJoined ==
  /\ Joined("a") /\ Joined("b")
  /\ discussionId["a"] = discussionId["b"]

\* the Peer Link between the two participants is Connected at both ends
LinkConnected ==
  /\ \E p \in OpenFor("a", socketId["b"]) : p.sig = "connected"
  /\ \E q \in OpenFor("b", socketId["a"]) : q.sig = "connected"

Connection(c) == IF connected[c] THEN {socketId[c]} ELSE {}

\* C25: the Coordinator's membership set of a room is exactly the set of
\* identities that have joined it and have not since left or disconnected:
\* a join received from a connection adds its identity, a leave removes it,
\* the loss of the connection removes it from every room, nothing else changes
\* the set, and every member is a live connection.
C25_MembershipExact ==
  [][\A r \in Rooms :
       /\ members'[r] =
            (members[r]
               \cup UNION {Connection(c) : c \in {x \in Clients :
                     out' = Sent(x, Msg("join-discussion", 0, r, FALSE))}})
               \ UNION {Connection(c) : c \in {x \in Clients :
                     \/ out' = Sent(x, Msg("leave-discussion", 0, r, FALSE))
                     \/ connected[x] /\ ~connected'[x]}}
       /\ members'[r] \subseteq {socketId'[c] : c \in {x \in Clients : connected'[x]}}]_vars

\* the roamer, which had joined, has just left the room the other
\* participant is still in
C25_Witness ==
  /\ out = Sent(Roamer, Msg("leave-discussion", 0, LinkRoom, FALSE))
  /\ connected[Roamer] /\ served[Roamer]
  /\ \E c \in Clients \ {Roamer} :
        connected[c] /\ members[LinkRoom] = {socketId[c]}

\* what a step adds to the inbox of client t
Appended(t) ==
  IF Len(inbox'[t]) > Len(inbox[t])
  THEN SubSeq(inbox'[t], Len(inbox[t]) + 1, Len(inbox'[t]))
  ELSE <<>>

\* C26: relay is recipient-scoped. An offer, an answer or an ice-candidate
\* reaches a participant only in the step in which a message of that kind
\* addressed to its identity is sent by another participant who is in a room
\* with it, and carries the identity of that sender; a message addressed to
\* an identity that is not in the sender's room reaches nobody.
C26_RelayScoped ==
  [][\A t \in Clients : \A i \in 1..Len(Appended(t)) :
       Appended(t)[i].type \in Signals =>
          /\ Len(Appended(t)) = 1
          /\ out'.type = Appended(t)[i].type
          /\ out'.c \in Clients \ {t}
          /\ connected[t] /\ out'.id = socketId[t]
          /\ Appended(t)[i].id = socketId[out'.c]
          /\ \E r \in Rooms : {socketId[out'.c], socketId[t]} \subseteq members[r]]_vars

\* a candidate addressed to the other participant has just reached it
C26_Witness ==
  \E c, t \in Clients :
    /\ c # t /\ connected[c] /\ connected[t]
    /\ \E r \in Rooms : {socketId[c], socketId[t]} \subseteq members[r]
    /\ out = Sent(c, Msg("ice-candidate", socketId[t], "null", FALSE))
    /\ inbox[t] # <<>>
    /\ inbox[t][Len(inbox[t])] = Msg("ice-candidate", socketId[c], "null", FALSE)

(* ============================ AudioChat view ========================== *)
\* An error text is the sequence of its words; null is the empty sequence.
includes(e, w) == \E i \in 1..Len(e) : e[i] = w

\* line 167: the text of the error joinDiscussion throws
NotConnectedError == <<"Audio", "service", "not", "connected">>

\* the view's error once the join it awaited has ended with the record r,
\* having been e before: the catch of the call, the test of its result
connectToVoiceChat(r, e) ==
  IF r.val = "throw"
  THEN <<"Failed", "to", "join", "voice", "chat", ":">> \o NotConnectedError
  ELSE IF r.val = "false"
  THEN <<"Failed", "to", "join", "voice", "chat", ".", "Please", "check", "your",
         "microphone", "permissions", ".">>
  ELSE e

needsMicrophonePermission(e) == includes(e, "microphone")

\* the button the error panel shows
ErrorPanel(e) ==
  IF e = <<>> THEN "none"
  ELSE IF needsMicrophonePermission(e) THEN "Try Again" ELSE "Reconnect"

\* C28: the view reports a failed join as an error with a retry button: the
\* microphone-permission variant exactly when the capture was denied or
\* failed, the reconnect variant when the join failed for another cause.
C28_VariantMatchesCause ==
  \A c \in Clients :
    (last.c = c /\ last.op = "joinDiscussion" /\ last.val # "true") =>
       ErrorPanel(connectToVoiceChat(last, <<>>)) =
          (IF last.mic = "denied" THEN "Try Again" ELSE "Reconnect")

(* ====================== leave during the capture ====================== *)
\* C29: when leaveDiscussion() or cleanup() ran while a joinDiscussion() was
\* awaiting the microphone (the identifier the join had stored is gone), the
\* join, once it settles, leaves the manager with no microphone capture and
\* no voice-activity timer and sends no join-discussion message.
C29_LateJoinAbandoned ==
  [][\A c \in Clients :
       (/\ joinPending[c] # {} /\ joinPending'[c] = {}
        /\ discussionId[c] = "null"
        /\ last'.c = c /\ last'.op = "joinDiscussion") =>
          /\ localStream'[c] = "null"
          /\ \A t \in TimerIds : timers'[c][t] = "free"
          /\ out'.type # "join-discussion"]_vars

(* ========================== order of callbacks ======================== *)
\* C30: the user-joined callback of a join is not delivered after the
\* user-left callback of the leave that follows it.  It is delivered by the
\* user-joined listener itself or by its continuation on the connection that
\* listener created, which is still the one held for the participant, and
\* the participant is listed then: no user-left has been handled since.
C30_JoinedBeforeLeft ==
  [][\A c \in Clients : \A X \in RemoteIds :
       cb' = Cb(c, "user-joined", X, FALSE) =>
          /\ users'[c][X] # "absent"
          /\ \/ last'.c = c /\ last'.op = "user-joined" /\ last'.from = X
             \/ \E p \in Held(peerConnections[c], X) :
                   /\ ~p.closed /\ "offer_j" \in p.tasks
                   /\ \E q \in Held(peerConnections'[c], X) :
                         q.tasks = p.tasks \ {"offer_j"}]_vars

\* the user-left callback has just been delivered for a participant whose
\* user-joined listener was still awaiting the creation of the link
C30_Witness ==
  \E X \in RemoteIds :
    /\ last.c = Local /\ last.op = "user-left" /\ last.from = X /\ last.busy
    /\ cb = Cb(Local, "user-left", X, FALSE)
    /\ users[Local][X] = "absent"
    /\ \A p \in peerConnections[Local] : p.remote # X

(* ============================ reconnection ============================ *)
\* the voice-activity timer of c is scheduled and its callback samples and
\* sends the transitions
Sampling(c) ==
  /\ voiceActivityDetectionInterval[c] # 0
  /\ timers[c][voiceActivityDetectionInterval[c]] # "free"
  /\ ~TickSkips(c)

\* C32: the manager's view of being joined agrees with the Coordinator, also
\* after the channel has dropped and reconnected: whenever the manager is
\* connected, has a discussion identifier, awaits no capture and is sampling
\* for the discussion, its connection is a member of that room.
C32_JoinedAgreesWithCoordinator ==
  \A c \in Clients :
    (connected[c] /\ discussionId[c] # "null" /\ joinPending[c] = {} /\ Sampling(c))
       => socketId[c] \in members[discussionId[c]]

(* ======================= roster of a room left ======================== *)
\* C33: getUsers() lists no remote participant of a room the manager has
\* left: when leaveDiscussion() has returned, the list holds at most the
\* local participant.
C33_RosterClearedOnLeave ==
  \A c \in Clients : Left(c) => Present(users[c]) \subseteq {UserId(c)}

(* ========================= mute and the stream ======================== *)
\* C34: whenever the manager holds a local microphone stream, its audio
\* track is enabled exactly when the manager is not muted.
C34_TrackFollowsMute ==
  \A c \in Clients :
    localStream[c] # "null" => (localStream[c] = "on" <=> ~isMuted[c])

(* ======================= the AudioChat component ====================== *)
\* line 193: the text of the error the catch of joinDiscussion reports
MicrophoneError ==
  <<"Could", "not", "access", "microphone", ".", "Please", "check", "your",
    "permissions", ".">>

\* the room the component is given
ViewRoom == "d1"

\* The component's state after a step of the manager that delivered the
\* callback b and left the record r: the onConnected and onError callbacks
\* given to initialize (PostCard.tsx:243-251), then the continuation of
\* retryConnection when the join it awaits has ended (315-329).  The
\* callbacks and the continuation of a component that is no longer mounted
\* change nothing that is shown.
Rendered(v, c, b, r) ==
  LET v1 == IF b = Cb(c, "connected", 0, FALSE)
            THEN [v EXCEPT !.isConnected = TRUE, !.isConnecting = FALSE]
            ELSE IF b = Cb(c, "error", 0, FALSE)
            THEN [v EXCEPT !.error = MicrophoneError, !.isConnecting = FALSE]
            ELSE v
      v2 == IF v.awaiting /\ r.c = c /\ r.op = "joinDiscussion"
            THEN [v1 EXCEPT !.error = connectToVoiceChat(r, v1.error),
                            !.isConnecting = FALSE, !.awaiting = FALSE]
            ELSE v1
  IN IF v.mounted THEN v2 ELSE v

\* a step of the manager the component did not call, and what it renders
Shown(c) ==
  /\ view' = [view EXCEPT ![c] = Rendered(view[c], c, cb', last')]
  /\ offered' = offered

\* the mount effect (232-297): initialize with the callbacks, then
\* connectToVoiceChat, whose joinDiscussion finds this.connected false (the
\* new socket has not connected yet) and throws at line 167; the catch of
\* connectToVoiceChat sets the error
Mount(c) ==
  /\ ~view[c].mounted
  /\ initializeAs(c, Ended(c, "throw", "none"), TRUE)
  /\ view' = [view EXCEPT ![c] =
                [NoView EXCEPT !.mounted = TRUE, !.auto = TRUE,
                               !.error = connectToVoiceChat(last', <<>>)]]
  /\ offered' = offered

\* the cleanup of the effect on unmount (294-296); the state of the
\* component is discarded
Unmount(c) ==
  /\ view[c].mounted
  /\ cleanup(c)
  /\ view' = [view EXCEPT ![c] = NoView]
  /\ offered' = offered

\* AudioChat.toggleMute (306-312), behind the button that is enabled when
\* the component is connected and shows no error (345-350)
ViewToggleMute(c) ==
  /\ view[c].mounted
  /\ ~view[c].isConnecting /\ view[c].isConnected /\ view[c].error = <<>>
  /\ toggleMute(c)
  /\ view' = [view EXCEPT ![c].isMuted = isMuted'[c], ![c].auto = FALSE]
  /\ offered' = offered

\* retryConnection (315-329), behind the button of the error panel, up to
\* the await of joinDiscussion or to its throw
retryConnection(c) ==
  /\ view[c].mounted /\ view[c].error # <<>> /\ ~view[c].awaiting
  /\ joinDiscussion(c, ViewRoom)
  /\ view' = [view EXCEPT ![c] =
                IF last'.op = "joinDiscussion"
                THEN [@ EXCEPT !.error = connectToVoiceChat(last', <<>>),
                               !.isConnecting = FALSE, !.auto = FALSE]
                ELSE [@ EXCEPT !.error = <<>>, !.isConnecting = TRUE,
                               !.awaiting = TRUE, !.auto = FALSE]]
  /\ offered' = offered

\* the transport loses the connection of a mounted component
ViewDisconnect(c) ==
  /\ OnDisconnect(c)
  /\ view' = [view EXCEPT ![c].auto = FALSE]
  /\ offered' = offered

\* the capture of a join the component awaits is denied
ViewDenied(c) ==
  /\ joinCaptured(c, ViewRoom, FALSE, TRUE)
  /\ view' = [view EXCEPT ![c] = [Rendered(view[c], c, cb', last') EXCEPT !.auto = FALSE]]
  /\ offered' = offered

\* One AudioChat on the shared manager: it mounts, unmounts and mounts
\* again, the user presses its buttons, the transport connects and drops,
\* and the capture the user is asked for is granted or denied.  The field
\* auto of the view is true from a mount until the user presses a button,
\* the connection drops or a capture is denied.
NextView ==
  \/ Mount(Local)
  \/ Unmount(Local)
  \/ ViewToggleMute(Local)
  \/ retryConnection(Local)
  \/ OnConnect(Local) /\ Shown(Local)
  \/ ViewDisconnect(Local)
  \/ joinCaptured(Local, ViewRoom, TRUE, TRUE) /\ Shown(Local)
  \/ ViewDenied(Local)

SpecView == Init /\ [][NextView]_vars

\* The component when the transport connects and a granted capture
\* completes: both are weakly fair; what the user does is not.
SpecViewLive ==
  /\ Init /\ [][NextView]_vars
  /\ WF_vars(OnConnect(Local) /\ Shown(Local))
  /\ WF_vars(joinCaptured(Local, ViewRoom, TRUE, TRUE) /\ Shown(Local))

\* C35: the mute state AudioChat displays equals the mute state of the
\* shared audioService, across the mute toggles and across unmounting and
\* mounting the component again.
C35_ViewMuteAgrees ==
  \A c \in Clients : view[c].mounted => view[c].isMuted = isMuted[c]

\* the component shows the joined state: the join has been sent, the
\* participant list is rendered and no error is
ShowsJoined(c) ==
  /\ view[c].mounted /\ joinedTo[c] # "null"
  /\ ~view[c].isConnecting /\ view[c].error = <<>>

\* C36: a component that mounts with a reachable channel and the microphone
\* granted eventually shows the joined state without any user interaction:
\* from a mount on, it comes to show it unless the user presses a button,
\* the connection drops, a capture is denied or the component unmounts.
C36_MountLeadsToJoined ==
  (view[Local].mounted /\ view[Local].auto)
     ~> (ShowsJoined(Local) \/ ~view[Local].mounted \/ ~view[Local].auto)

(* ======================== answers and their offers ==================== *)
\* the link c held for X stops being the link held for X in this step: the
\* user-joined listener replaces it (line 216), the user-left listener or a
\* teardown closes it
Superseded(c, X) ==
  /\ Has(peerConnections[c], X)
  /\ \/ last'.c = c /\ last'.op \in {"user-joined", "user-left"} /\ last'.from = X
     \/ ~Has(peerConnections'[c], X)

\* The offers of c that are unanswered after a step: the offers of a link
\* superseded in the step become old, an offer sent in it (lines 263-269) is
\* the newest, and an answer that arrives in it answers the oldest.  The
\* answers to the offers sent over a connection that is lost are not
\* delivered.
Offers(c) ==
  LET aged(X) == IF Superseded(c, X)
                 THEN [i \in 1..Len(offered[c][X]) |-> "old"]
                 ELSE offered[c][X]
      left(X) == IF ~connected'[c] THEN <<>>
                 ELSE IF out'.c = c /\ out'.type = "offer" /\ out'.id = X
                 THEN Append(aged(X), "held")
                 ELSE IF last'.c = c /\ last'.op = "answer" /\ last'.from = X
                 THEN Tail(aged(X))
                 ELSE aged(X)
  IN /\ offered' = [offered EXCEPT ![c] = [X \in RemoteIds |-> left(X)]]
     /\ \A X \in RemoteIds : Len(offered'[c][X]) <= MaxOffers
     /\ view' = view

\* the messages a remote participant can have sent: an answer only when an
\* offer to it is unanswered
Answerable(c) ==
  {m \in LinkMsgs : m.type = "answer" => offered[c][m.id] # <<>>}

\* The negotiation of one manager when every answer answers an offer the
\* manager sent: the session with the microphone granted, the messages about
\* the remote participants, every arrival recorded, and the completion of the
\* awaited operations.
NextAnswers ==
  \/ initialize(Local) /\ Offers(Local)
  \/ OnConnect(Local) /\ Offers(Local)
  \/ OnDisconnect(Local) /\ Offers(Local)
  \/ joinDiscussion(Local, LinkRoom) /\ Offers(Local)
  \/ joinCaptured(Local, LinkRoom, TRUE, TRUE) /\ Offers(Local)
  \/ leaveDiscussion(Local) /\ Offers(Local)
  \/ \E m \in Answerable(Local) : EnvListen(Local, m) /\ Offers(Local)
  \/ \E pc \in peerConnections[Local], k \in TaskKinds : PcStep(Local, pc, k) /\ Offers(Local)

SpecAnswers == Init /\ [][NextAnswers]_vars

\* C31: an answer is applied only to the Peer Link whose offer it answers:
\* when the answer that arrives from X answers an offer of a link that has
\* been superseded since, the listener does not set it as the remote
\* description of the link now held for X while that link waits for the
\* answer to its own offer.
C31_AnswerMeetsItsOffer ==
  [][\A c \in Clients : \A X \in RemoteIds :
       (/\ last'.c = c /\ last'.op = "answer" /\ last'.from = X
        /\ offered[c][X] # <<>> /\ Head(offered[c][X]) = "old") =>
          \A q \in Held(peerConnections'[c], X) :
             ~("sa" \in q.tasks /\ q.sig = "have-local-offer")]_vars
====
